---- MODULE Spec2Model ----
(***************************************************************************)
(* LOCAT: download, reduction and declination-band recompilation of the    *)
(* Gaia EDR3 catalog (http_utils.py, parse_gaia.py).                       *)
(*                                                                         *)
(* Three programs are modelled over one working directory:                 *)
(*   download_file           (http_utils.py)  -- the Transfer Engine       *)
(*   parse_edr3              (parse_gaia.py)  -- the Partition Reducer     *)
(*   recompile_edr3_catalog  (parse_gaia.py)  -- Band Router + Finalizer   *)
(* SpecReduce runs parse_edr3 (which calls download_file); SpecRoute runs  *)
(* recompile_edr3_catalog on a directory of reduced partition files.       *)
(*                                                                         *)
(* Units: magnitudes are integers in micro-magnitudes, declinations and    *)
(* right ascensions are integer degrees, file sizes are counted in bytes.  *)
(***************************************************************************)
EXTENDS Integers, Sequences, FiniteSets, TLC

VARIABLES
    (* ---- the catalog server and the call parameters ---- *)
    remote,          \* remote[p]: the raw rows of partition p on the server
    use_existing,    \* parse_edr3(use_existing=...)
    test_one,        \* parse_edr3(test_one=...)
    (* ---- the working directory ---- *)
    raw,             \* raw[p]: the local .csv.gz file lfn of partition p
    tmp,             \* tmp[p]: the staging file f'{lfn}.tmp' of partition p
    fits,            \* fits[p]: the reduced file fitsfn of partition p
    bucket,          \* bucket[b]: the dec-band file Gaia_EDR3_dec_<b>_<b+10>.fits
    gaia_files,      \* sorted(glob("GaiaSource_*.fits")): the reduced files routed
    (* ---- parse_edr3 ---- *)
    pcR,             \* position in parse_edr3
    i,               \* enumerate(files, 1) index
    data,            \* the table held in memory
    outcome,         \* history: outcome[p] of the last completed reduction of p
    (* ---- download_file ---- *)
    pcT,             \* position in download_file
    file_size_bytes, \* declared content-length (0 when absent)
    progress,        \* progress_bar.n of download_file
    sent,            \* bytes the current http_respond has delivered
    errmsg,          \* errmsg
    attempt,         \* parity of the requests.get() that feeds the stream
    (* ---- recompile_edr3_catalog ---- *)
    pcB,             \* position in recompile_edr3_catalog
    dec_min,         \* loop variable of the bucket-creation / finalizer loops
    rc_progress,     \* progress_bar.n of recompile_edr3_catalog
    k,               \* index of `gaia` in gaia_files
    t,               \* the table read from `gaia`
    bands            \* the bands still to be visited for `gaia`

fsvars == <<raw, tmp, fits>>
tvars  == <<pcT, file_size_bytes, progress, sent, errmsg, attempt>>
rvars  == <<remote, use_existing, test_one, pcR, i, data, outcome>>
bvars  == <<bucket, gaia_files, pcB, dec_min, rc_progress, k, t, bands>>
vars   == <<fsvars, tvars, rvars, bvars>>

(***************************************************************************)
(* Bounds of the model.                                                    *)
(***************************************************************************)
NumParts  == 2    \* partitions listed by list_http_directory
BodyLen   == 2    \* bytes of a complete remote partition file
MaxChunk  == 2    \* largest len(data) one iter_content() step yields
MaxStream == 3    \* most bytes one response delivers (may exceed BodyLen)

Parts == 1..NumParts

Min(a, b) == IF a < b THEN a ELSE b

(***************************************************************************)
(* Files.  A byte file (raw, tmp) exists or not and holds a sequence of    *)
(* bytes; each byte is tagged with the parity of the request it came from. *)
(***************************************************************************)
NoFile == [exists |-> FALSE, bytes |-> <<>>]
NewFile == [exists |-> TRUE, bytes |-> <<>>]
Bytes(c, a) == [j \in 1..c |-> a]

(***************************************************************************)
(* Reduced files (fitsfn).  kind is "absent", "empty" (a zero-byte file),  *)
(* "torn" (a FITS file whose write was cut short) or "table".              *)
(***************************************************************************)
NoFits    == [kind |-> "absent", rows |-> <<>>]
EmptyFits == [kind |-> "empty",  rows |-> <<>>]
TornFits  == [kind |-> "torn",   rows |-> <<>>]
TableFits(rows) == [kind |-> "table", rows |-> rows]

(***************************************************************************)
(* convert_edr3_phot_jc: G - V = f(a, G_BP - G_RP), Riello et al. 2021.    *)
(* Coefficients in micro-magnitudes; br in whole magnitudes.  Only V is    *)
(* modelled: R and I are carried through to the output but never read.     *)
(***************************************************************************)
a == <<-27040, 14240, -215600, 14260>>
convert_edr3_phot_jc(g, br) ==
    g - a[1] - a[2] * br - a[3] * br * br - a[4] * br * br * br

MagLimit == 18000000   \* data['vmag'] <= 18
DecLimit == -40        \* data['dec'] > -40

(* astype('f4'): round to the nearest representable single-precision value *)
(* (spacing 2^-19 mag near 18 mag, 2 micro-magnitudes here), ties upward.  *)
F4Ulp == 2
astype_f4(x) == ((x + (F4Ulp \div 2)) \div F4Ulp) * F4Ulp

(***************************************************************************)
(* The raw partitions the server may hold.  A raw row is                   *)
(* [source_id, ra, dec, phot_g_mean_mag, bp_rp]; source_id is unique       *)
(* across partitions.                                                      *)
(***************************************************************************)
RawRow(id, ra, dec, g, br) ==
    [source_id |-> id, ra |-> ra, dec |-> dec, phot_g_mean_mag |-> g, bp_rp |-> br]

RawTemplates(p) ==
    { (* accepted; too far south; too faint; vmag exactly 18 (br = 1) at the  *)
      (* pole; just inside both limits                                        *)
      << RawRow(10*p+1, 30, 10, 5000000, 0), RawRow(10*p+2, 20, -50, 5000000, 0),
         RawRow(10*p+3, 10, 10, 20000000, 1), RawRow(10*p+4, 30, 90, 17785860, 1),
         RawRow(10*p+5, 10, -39, 17972959, 0) >>,
      (* nothing survives: 2 micro-mag too faint; on the declination limit;   *)
      (* failing both                                                         *)
      << RawRow(10*p+1, 30, 15, 17972962, 0), RawRow(10*p+2, 20, -40, 5000000, 1),
         RawRow(10*p+3, 10, -41, 19000000, 0) >> }

(* lines 100-107: Table.read(lfn) and the derived column vmag *)
WithVmag(rows) ==
    [j \in 1..Len(rows) |->
        [source_id |-> rows[j].source_id, ra |-> rows[j].ra, dec |-> rows[j].dec,
         vmag |-> convert_edr3_phot_jc(rows[j].phot_g_mean_mag, rows[j].bp_rp)]]

(* MagOk with a strict comparison *)
MagOk_Strict(r) == r.vmag < MagLimit

(* line 116: data[np.where(data['vmag'] <= 18)] *)
MagOk(r) == r.vmag <= MagLimit
CullMag(rows) == SelectSeq(rows, MagOk)

(* line 120: data[np.where(data['dec'] > -40)] *)
DecOk(r) == r.dec > DecLimit
CullDec(rows) == SelectSeq(rows, DecOk)

(* lines 143-169: the CAT table t; name, ra, dec unchanged, vmag narrowed *)
Project(rows) ==
    [j \in 1..Len(rows) |->
        [name |-> rows[j].source_id, ra |-> rows[j].ra, dec |-> rows[j].dec,
         vmag |-> astype_f4(rows[j].vmag)]]

(***************************************************************************)
(* The dec bands: range(-40, 90, 10).                                      *)
(***************************************************************************)
BandLo    == -40
BandHi    == 90
BandWidth == 10
Bands == { BandLo + BandWidth * j : j \in 0..((BandHi - BandLo) \div BandWidth - 1) }

IdleBuckets == [b \in Bands |-> NoFits]

(***************************************************************************)
(* Initial state of a run of parse_edr3 in an empty working directory.     *)
(***************************************************************************)
InitReduce ==
    /\ remote \in { f \in [Parts -> UNION { RawTemplates(p) : p \in Parts }] :
                      \A p \in Parts : f[p] \in RawTemplates(p) }
    /\ use_existing \in BOOLEAN
    /\ test_one \in BOOLEAN
    /\ raw = [p \in Parts |-> NoFile]
    /\ tmp = [p \in Parts |-> NoFile]
    /\ fits = [p \in Parts |-> NoFits]
    /\ pcR = "for" /\ i = 1 /\ data = <<>>
    /\ outcome = [p \in Parts |-> "none"]
    /\ pcT = "idle" /\ file_size_bytes = 0 /\ progress = 0 /\ sent = 0
    /\ errmsg = "" /\ attempt = 0
    /\ bucket = IdleBuckets /\ gaia_files = <<>> /\ pcB = "idle" /\ dec_min = BandLo
    /\ rc_progress = 0 /\ k = 1 /\ t = <<>> /\ bands = <<>>

(***************************************************************************)
(* download_file(file, lfn, throttle), called for partition i.             *)
(* The throttle only adds a sleep after each chunk and changes no state.   *)
(***************************************************************************)
TLocalsUnchanged == UNCHANGED <<rvars, bvars, fits>>

(* lines 80-83: requests.get succeeds; content-length is absent or right *)
Get80 ==
    /\ pcT = "get"
    /\ \E L \in {0, BodyLen} : file_size_bytes' = L
    /\ progress' = 0 /\ sent' = 0 /\ attempt' = 1 - attempt
    /\ pcT' = "while"
    /\ UNCHANGED <<errmsg, raw, tmp>> /\ TLocalsUnchanged

(* line 80: requests.get raises ConnectionError / Timeout: nothing catches it *)
Get80Raises ==
    /\ pcT = "get"
    /\ pcT' = "raised"
    /\ UNCHANGED <<file_size_bytes, progress, sent, errmsg, attempt, raw, tmp>>
    /\ TLocalsUnchanged

(* line 85: while progress_bar.n != file_size_bytes *)
While85 ==
    /\ pcT = "while"
    /\ pcT' = IF progress # file_size_bytes THEN "open" ELSE "returned"
    /\ UNCHANGED <<file_size_bytes, progress, sent, errmsg, attempt, raw, tmp>>
    /\ TLocalsUnchanged

(* Open86 that opens the staging file for appending *)
Open86_Append ==
    /\ pcT = "open"
    /\ tmp' = IF tmp[i].exists THEN tmp ELSE [tmp EXCEPT ![i] = NewFile]
    /\ pcT' = "iter"
    /\ UNCHANGED <<file_size_bytes, progress, sent, errmsg, attempt, raw>>
    /\ TLocalsUnchanged

(* line 86: open(tempfn, 'wb') truncates the staging file *)
Open86 ==
    /\ pcT = "open"
    /\ tmp' = [tmp EXCEPT ![i] = NewFile]
    /\ pcT' = "iter"
    /\ UNCHANGED <<file_size_bytes, progress, sent, errmsg, attempt, raw>>
    /\ TLocalsUnchanged

(* lines 89-92: one chunk: progress_bar.update(len(data)); f.write(data) *)
Iter89 ==
    /\ pcT = "iter"
    /\ sent < MaxStream
    /\ \E c \in 1..Min(MaxChunk, MaxStream - sent) :
          /\ progress' = progress + c
          /\ sent' = sent + c
          /\ tmp' = [tmp EXCEPT ![i].bytes = @ \o Bytes(c, attempt)]
    /\ UNCHANGED <<pcT, file_size_bytes, errmsg, attempt, raw>>
    /\ TLocalsUnchanged

(* lines 93-94: the stream raises requests.ConnectionError *)
Except93 ==
    /\ pcT = "iter"
    /\ errmsg' = "Connection Error occurred."
    /\ pcT' = "check"
    /\ UNCHANGED <<file_size_bytes, progress, sent, attempt, raw, tmp>>
    /\ TLocalsUnchanged

(* lines 95-96: the stream raises requests.ReadTimeout *)
Except95 ==
    /\ pcT = "iter"
    /\ errmsg' = "Read Timeout error occurred."
    /\ pcT' = "check"
    /\ UNCHANGED <<file_size_bytes, progress, sent, attempt, raw, tmp>>
    /\ TLocalsUnchanged

(* lines 97-98: the stream ends (at any length) without an exception *)
Else97 ==
    /\ pcT = "iter"
    /\ errmsg' = "Unspecified error occurred."
    /\ pcT' = "check"
    /\ UNCHANGED <<file_size_bytes, progress, sent, attempt, raw, tmp>>
    /\ TLocalsUnchanged

(* If100 without the comparison of the byte count with the declared length *)
If100_NoLengthTest ==
    /\ pcT = "check"
    /\ pcT' = "rename"
    /\ UNCHANGED <<file_size_bytes, progress, sent, errmsg, attempt, raw, tmp>>
    /\ TLocalsUnchanged

(* line 100: if file_size_bytes != 0 and progress_bar.n != file_size_bytes *)
If100 ==
    /\ pcT = "check"
    /\ pcT' = IF file_size_bytes # 0 /\ progress # file_size_bytes
              THEN "reget" ELSE "rename"
    /\ UNCHANGED <<file_size_bytes, progress, sent, errmsg, attempt, raw, tmp>>
    /\ TLocalsUnchanged

(* lines 101-103: print the retry message, reload requests.get() *)
Get103 ==
    /\ pcT = "reget"
    /\ sent' = 0 /\ attempt' = 1 - attempt
    /\ pcT' = "reset"
    /\ UNCHANGED <<file_size_bytes, progress, errmsg, raw, tmp>>
    /\ TLocalsUnchanged

(* line 103: requests.get raises ConnectionError / Timeout: nothing catches it *)
Get103Raises ==
    /\ pcT = "reget"
    /\ pcT' = "raised"
    /\ UNCHANGED <<file_size_bytes, progress, sent, errmsg, attempt, raw, tmp>>
    /\ TLocalsUnchanged

(* line 105: progress_bar.reset() *)
Reset105 ==
    /\ pcT = "reset"
    /\ progress' = 0
    /\ pcT' = "while"
    /\ UNCHANGED <<file_size_bytes, sent, errmsg, attempt, raw, tmp>>
    /\ TLocalsUnchanged

(* lines 108-109: progress_bar.close(); os.rename(tempfn, lfn) *)
Rename109 ==
    /\ pcT = "rename"
    /\ raw' = [raw EXCEPT ![i] = tmp[i]]
    /\ tmp' = [tmp EXCEPT ![i] = NoFile]
    /\ pcT' = "while"
    /\ UNCHANGED <<file_size_bytes, progress, sent, errmsg, attempt>>
    /\ TLocalsUnchanged

download_file ==
    \/ Get80 \/ Get80Raises \/ While85 \/ Open86 \/ Iter89 \/ Except93 \/ Except95
    \/ Else97 \/ If100 \/ Get103 \/ Get103Raises \/ Reset105 \/ Rename109

(***************************************************************************)
(* parse_edr3(test_one, use_existing, throttle).                           *)
(***************************************************************************)
RLocalsUnchanged == UNCHANGED <<remote, use_existing, test_one, bvars>>
TIdle == UNCHANGED tvars

(* lines 74-78: next element of enumerate(files, 1); the test_one break *)
For74 ==
    /\ pcR = "for"
    /\ pcR' = IF i <= NumParts /\ ~(test_one /\ i > 1) THEN "isfile_fits" ELSE "done"
    /\ UNCHANGED <<i, data, outcome, fsvars>> /\ TIdle /\ RLocalsUnchanged

(* IsFile85 without the skip: an existing reduced file is redone *)
IsFile85_NoSkip ==
    /\ pcR = "isfile_fits"
    /\ i' = i /\ pcR' = "isfile_lfn"
    /\ UNCHANGED <<data, outcome, fsvars>> /\ TIdle /\ RLocalsUnchanged

(* lines 85-86: if os.path.isfile(fitsfn): continue *)
IsFile85 ==
    /\ pcR = "isfile_fits"
    /\ IF fits[i].kind # "absent"
       THEN i' = i + 1 /\ pcR' = "for"
       ELSE i' = i /\ pcR' = "isfile_lfn"
    /\ UNCHANGED <<data, outcome, fsvars>> /\ TIdle /\ RLocalsUnchanged

(* Remove90 that never removes the raw file *)
Remove90_Keep ==
    /\ pcR = "isfile_lfn"
    /\ raw' = raw
    /\ pcR' = "while_dl"
    /\ UNCHANGED <<i, data, outcome, tmp, fits>> /\ TIdle /\ RLocalsUnchanged

(* lines 89-90: if os.path.isfile(lfn) and not use_existing: os.remove(lfn) *)
Remove90 ==
    /\ pcR = "isfile_lfn"
    /\ raw' = IF raw[i].exists /\ ~use_existing THEN [raw EXCEPT ![i] = NoFile] ELSE raw
    /\ pcR' = "while_dl"
    /\ UNCHANGED <<i, data, outcome, tmp, fits>> /\ TIdle /\ RLocalsUnchanged

(* lines 93-96: while not os.path.isfile(lfn): download_file(file, lfn,      *)
(* throttle); the call starts with fresh locals                             *)
While93 ==
    /\ pcR = "while_dl"
    /\ IF ~raw[i].exists
       THEN /\ pcR' = "download" /\ pcT' = "get"
            /\ file_size_bytes' = 0 /\ progress' = 0 /\ sent' = 0
            /\ errmsg' = "" /\ attempt' = 0
       ELSE /\ pcR' = "read"
            /\ UNCHANGED tvars
    /\ UNCHANGED <<i, data, outcome, fsvars>>
    /\ RLocalsUnchanged

(* line 96: download_file returns to the while test *)
Return96 ==
    /\ pcR = "download" /\ pcT = "returned"
    /\ pcR' = "while_dl" /\ pcT' = "idle"
    /\ UNCHANGED <<i, data, outcome, fsvars, file_size_bytes, progress, sent, errmsg,
                   attempt>>
    /\ RLocalsUnchanged

(* line 96: an exception leaving download_file leaves parse_edr3 as well *)
Raise96 ==
    /\ pcR = "download" /\ pcT = "raised"
    /\ pcR' = "raised"
    /\ UNCHANGED <<i, data, outcome, fsvars>> /\ TIdle /\ RLocalsUnchanged

(* lines 100-107: Table.read(lfn) and the photometry conversion; a file    *)
(* that is not a complete partition cannot be decompressed and read.       *)
Read100 ==
    /\ pcR = "read"
    /\ IF Len(raw[i].bytes) = BodyLen
       THEN data' = WithVmag(remote[i]) /\ pcR' = "cull_mag"
       ELSE data' = data /\ pcR' = "raised"
    /\ UNCHANGED <<i, outcome, fsvars>> /\ TIdle /\ RLocalsUnchanged

(* line 116 *)
Cull116 ==
    /\ pcR = "cull_mag"
    /\ data' = CullMag(data)
    /\ pcR' = "cull_dec"
    /\ UNCHANGED <<i, outcome, fsvars>> /\ TIdle /\ RLocalsUnchanged

(* line 120 *)
Cull120 ==
    /\ pcR = "cull_dec"
    /\ data' = CullDec(data)
    /\ pcR' = "len"
    /\ UNCHANGED <<i, outcome, fsvars>> /\ TIdle /\ RLocalsUnchanged

(* line 124: if len(data['ra']) == 0 *)
If124 ==
    /\ pcR = "len"
    /\ pcR' = IF Len(data) = 0 THEN "touch" ELSE "write"
    /\ UNCHANGED <<i, data, outcome, fsvars>> /\ TIdle /\ RLocalsUnchanged

(* Touch129 that creates no file *)
Touch129_NoFile ==
    /\ pcR = "touch"
    /\ pcR' = "remove_empty"
    /\ UNCHANGED <<i, data, outcome, fsvars>> /\ TIdle /\ RLocalsUnchanged

(* line 129: open(fitsfn, 'a').close() *)
Touch129 ==
    /\ pcR = "touch"
    /\ fits' = [fits EXCEPT ![i] = IF @.kind = "absent" THEN EmptyFits ELSE @]
    /\ pcR' = "remove_empty"
    /\ UNCHANGED <<i, data, outcome, raw, tmp>> /\ TIdle /\ RLocalsUnchanged

(* Remove130 that leaves the raw file *)
Remove130_Keep ==
    /\ pcR = "remove_empty"
    /\ raw' = raw
    /\ outcome' = [outcome EXCEPT ![i] = "zero"]
    /\ i' = i + 1 /\ pcR' = "for"
    /\ UNCHANGED <<data, tmp, fits>> /\ TIdle /\ RLocalsUnchanged

(* lines 130-131: os.remove(lfn); continue *)
Remove130 ==
    /\ pcR = "remove_empty"
    /\ raw' = [raw EXCEPT ![i] = NoFile]
    /\ outcome' = [outcome EXCEPT ![i] = "zero"]
    /\ i' = i + 1 /\ pcR' = "for"
    /\ UNCHANGED <<data, tmp, fits>> /\ TIdle /\ RLocalsUnchanged

(* line 175: t.write(fitsfn, overwrite=True), step 1: the file is created   *)
(* (or truncated) under its final name                                      *)
Write175Open ==
    /\ pcR = "write"
    /\ fits' = [fits EXCEPT ![i] = EmptyFits]
    /\ pcR' = "write_data"
    /\ UNCHANGED <<i, data, outcome, raw, tmp>> /\ TIdle /\ RLocalsUnchanged

(* line 175, step 2: part of the table has reached the file *)
Write175Data ==
    /\ pcR = "write_data"
    /\ fits' = [fits EXCEPT ![i] = TornFits]
    /\ pcR' = "write_close"
    /\ UNCHANGED <<i, data, outcome, raw, tmp>> /\ TIdle /\ RLocalsUnchanged

(* line 175, step 3: the whole table is written and the file closed *)
Write175Close ==
    /\ pcR = "write_close"
    /\ fits' = [fits EXCEPT ![i] = TableFits(Project(data))]
    /\ pcR' = "remove"
    /\ UNCHANGED <<i, data, outcome, raw, tmp>> /\ TIdle /\ RLocalsUnchanged

(* Remove179 that removes the raw file whatever use_existing is *)
Remove179_Always ==
    /\ pcR = "remove"
    /\ raw' = [raw EXCEPT ![i] = NoFile]
    /\ outcome' = [outcome EXCEPT ![i] = "rows"]
    /\ i' = i + 1 /\ pcR' = "for"
    /\ UNCHANGED <<data, tmp, fits>> /\ TIdle /\ RLocalsUnchanged

(* lines 178-179: if not use_existing: os.remove(lfn); end of the iteration *)
Remove179 ==
    /\ pcR = "remove"
    /\ raw' = IF ~use_existing THEN [raw EXCEPT ![i] = NoFile] ELSE raw
    /\ outcome' = [outcome EXCEPT ![i] = "rows"]
    /\ i' = i + 1 /\ pcR' = "for"
    /\ UNCHANGED <<data, tmp, fits>> /\ TIdle /\ RLocalsUnchanged

parse_edr3 ==
    \/ For74 \/ IsFile85 \/ Remove90 \/ While93 \/ Return96 \/ Raise96 \/ Read100
    \/ Cull116 \/ Cull120 \/ If124 \/ Touch129 \/ Remove130
    \/ Write175Open \/ Write175Data \/ Write175Close \/ Remove179

(* The process is terminated at any step: its locals are gone, the files     *)
(* stay as they are.                                                         *)
ReduceStopped == pcR \in {"done", "crashed", "raised"}

KillReduce ==
    /\ ~ReduceStopped
    /\ pcR' = "crashed" /\ i' = 1 /\ data' = <<>>
    /\ pcT' = "idle" /\ file_size_bytes' = 0 /\ progress' = 0 /\ sent' = 0
    /\ errmsg' = "" /\ attempt' = 0
    /\ UNCHANGED <<remote, use_existing, test_one, outcome, fsvars, bvars>>

(* parse_edr3 is invoked again in the same working directory. *)
RerunReduce ==
    /\ ReduceStopped
    /\ use_existing' \in BOOLEAN
    /\ test_one' \in BOOLEAN
    /\ pcR' = "for" /\ i' = 1 /\ data' = <<>>
    /\ pcT' = "idle" /\ file_size_bytes' = 0 /\ progress' = 0 /\ sent' = 0
    /\ errmsg' = "" /\ attempt' = 0
    /\ UNCHANGED <<remote, outcome, fsvars, bvars>>

NextReduce == parse_edr3 \/ download_file \/ KillReduce \/ RerunReduce

SpecReduce == InitReduce /\ [][NextReduce]_vars

(* One run of parse_edr3(use_existing=False) that nothing interrupts, in a   *)
(* working directory without raw partition files.                            *)
InitClean ==
    /\ remote \in { f \in [Parts -> UNION { RawTemplates(p) : p \in Parts }] :
                      \A p \in Parts : f[p] \in RawTemplates(p) }
    /\ use_existing = FALSE
    /\ test_one \in BOOLEAN
    /\ raw = [p \in Parts |-> NoFile]
    /\ tmp = [p \in Parts |-> NoFile]
    /\ fits \in [Parts -> {NoFits, EmptyFits}]
    /\ pcR = "for" /\ i = 1 /\ data = <<>>
    /\ outcome = [p \in Parts |-> "none"]
    /\ pcT = "idle" /\ file_size_bytes = 0 /\ progress = 0 /\ sent = 0
    /\ errmsg = "" /\ attempt = 0
    /\ bucket = IdleBuckets /\ gaia_files = <<>> /\ pcB = "idle" /\ dec_min = BandLo
    /\ rc_progress = 0 /\ k = 1 /\ t = <<>> /\ bands = <<>>

NextUninterrupted == parse_edr3 \/ download_file

SpecUninterrupted == InitClean /\ [][NextUninterrupted]_vars

(***************************************************************************)
(* recompile_edr3_catalog().                                               *)
(*                                                                         *)
(* A reduced row is [name, ra, dec, vmag].  The reduced files a directory  *)
(* may hold: none, the empty bookkeeping file of line 129, or a table of   *)
(* rows that passed the Reducer's cuts.                                    *)
(***************************************************************************)
Row(id, ra, dec) == [name |-> id, ra |-> ra, dec |-> dec, vmag |-> 5000000]

ReducedChoices(p) ==
    { NoFits, EmptyFits,
      (* one band, a row on the band's lower edge, ra out of order *)
      TableFits(<< Row(10*p+1, 30, 15), Row(10*p+2, 10, 10) >>),
      (* straddles the bands from [-40,-30) to [20,30); equal ra *)
      TableFits(<< Row(10*p+1, 30, 20), Row(10*p+2, 30, 19), Row(10*p+3, 20, -39) >>),
      (* a source at the pole *)
      TableFits(<< Row(10*p+1, 5, 90), Row(10*p+2, 1, 85) >>) }

RECURSIVE SeqMin(_, _)
SeqMin(s, j) ==
    IF j = Len(s) THEN s[j].dec ELSE Min(s[j].dec, SeqMin(s, j + 1))

Max(x, y) == IF x > y THEN x ELSE y

RECURSIVE SeqMax(_, _)
SeqMax(s, j) ==
    IF j = Len(s) THEN s[j].dec ELSE Max(s[j].dec, SeqMax(s, j + 1))

(* line 246: np.floor(dec/10.)*10 *)
BandOf(dec) == (dec \div BandWidth) * BandWidth

(* line 247: np.arange(band_range[0], band_range[1]+1, 10) *)
RECURSIVE arange(_, _)
arange(lo, hi) == IF lo >= hi THEN <<>> ELSE <<lo>> \o arange(lo + BandWidth, hi)

BandsOf(rows) == arange(BandOf(SeqMin(rows, 1)), BandOf(SeqMax(rows, 1)) + 1)

(* InBand with the upper edge included *)
InBand_Closed(rows, band) ==
    LET in(r) == r.dec >= band /\ r.dec <= band + BandWidth
    IN  SelectSeq(rows, in)

(* line 255: np.where(np.logical_and(t['dec'] >= band, t['dec'] < band+10)) *)
InBand(rows, band) ==
    LET in(r) == r.dec >= band /\ r.dec < band + BandWidth
    IN  SelectSeq(rows, in)

(* vstack that keeps only the rows of the file at hand *)
vstack_Overwrite(dec_table, rows, band) == InBand(rows, band)

(* lines 252-259: dec_table = vstack([dec_table, t[idx]]) *)
vstack(dec_table, rows, band) == dec_table \o InBand(rows, band)

(* line 230: sorted(glob.glob("GaiaSource_*.fits")), as partition numbers *)
RECURSIVE SortedGlob(_)
SortedGlob(p) ==
    IF p > NumParts THEN <<>>
    ELSE (IF fits[p].kind # "absent" THEN <<p>> ELSE <<>>) \o SortedGlob(p + 1)

(* sort that leaves the rows as they are *)
sort_Noop(s) == { s }

(* line 267: t.sort('ra').  The order of rows with equal ra is not fixed by  *)
(* the code (numpy's default sort is not stable): every ascending order of  *)
(* the rows is a possible result.                                           *)
InsertAt(q, j, x) == SubSeq(q, 1, j) \o <<x>> \o SubSeq(q, j + 1, Len(q))

RECURSIVE sort(_)
sort(s) ==
    IF s = <<>> THEN { <<>> }
    ELSE UNION { { InsertAt(q, j, Head(s)) :
                     j \in { m \in 0..Len(q) :
                               /\ (m = 0 \/ q[m].ra <= Head(s).ra)
                               /\ (m = Len(q) \/ Head(s).ra <= q[m + 1].ra) } } :
                 q \in sort(Tail(s)) }

MaxProgress == NumParts + 2   \* the routing loop is followed while below this

InitRoute ==
    /\ fits \in { f \in [Parts -> UNION { ReducedChoices(p) : p \in Parts }] :
                    \A p \in Parts : f[p] \in ReducedChoices(p) }
    /\ remote = [p \in Parts |-> <<>>]
    /\ use_existing = FALSE /\ test_one = FALSE
    /\ raw = [p \in Parts |-> NoFile]
    /\ tmp = [p \in Parts |-> NoFile]
    /\ pcR = "idle" /\ i = 1 /\ data = <<>>
    /\ outcome = [p \in Parts |-> "none"]
    /\ pcT = "idle" /\ file_size_bytes = 0 /\ progress = 0 /\ sent = 0
    /\ errmsg = "" /\ attempt = 0
    /\ bucket = IdleBuckets /\ gaia_files = <<>> /\ pcB = "create" /\ dec_min = BandLo
    /\ rc_progress = 0 /\ k = 1 /\ t = <<>> /\ bands = <<>>

BOthersUnchanged == UNCHANGED <<fsvars, tvars, rvars>>

(* Create221 that leaves an existing band table as it is *)
Create221_KeepExisting ==
    /\ pcB = "create"
    /\ bucket' = [bucket EXCEPT
                    ![dec_min] = IF @.kind = "table" THEN @ ELSE TableFits(<<>>)]
    /\ IF dec_min + BandWidth < BandHi
       THEN dec_min' = dec_min + BandWidth /\ pcB' = pcB
       ELSE dec_min' = dec_min /\ pcB' = "glob"
    /\ UNCHANGED <<gaia_files, rc_progress, k, t, bands>> /\ BOthersUnchanged

(* lines 221-227: create (or truncate to) an empty table, one band per step *)
Create221 ==
    /\ pcB = "create"
    /\ bucket' = [bucket EXCEPT ![dec_min] = TableFits(<<>>)]
    /\ IF dec_min + BandWidth < BandHi
       THEN dec_min' = dec_min + BandWidth /\ pcB' = pcB
       ELSE dec_min' = dec_min /\ pcB' = "glob"
    /\ UNCHANGED <<gaia_files, rc_progress, k, t, bands>> /\ BOthersUnchanged

(* lines 230-233: the list of reduced files; progress_bar.n = 0 *)
Glob230 ==
    /\ pcB = "glob"
    /\ gaia_files' = SortedGlob(1)
    /\ rc_progress' = 0
    /\ pcB' = "while"
    /\ UNCHANGED <<bucket, dec_min, k, t, bands>> /\ BOthersUnchanged

(* line 235: while progress_bar.n != len(gaia_files); the model follows the  *)
(* loop only while progress_bar.n < MaxProgress and then stops in "capped". *)
While235 ==
    /\ pcB = "while"
    /\ IF rc_progress # Len(gaia_files)
       THEN /\ pcB' = IF rc_progress < MaxProgress THEN "for" ELSE "capped"
            /\ k' = 1 /\ dec_min' = dec_min
       ELSE /\ pcB' = "finalize"
            /\ k' = k /\ dec_min' = BandLo
    /\ UNCHANGED <<bucket, gaia_files, rc_progress, t, bands>> /\ BOthersUnchanged

(* line 237: for gaia in gaia_files *)
For237 ==
    /\ pcB = "for"
    /\ pcB' = IF k <= Len(gaia_files) THEN "read" ELSE "while"
    /\ UNCHANGED <<bucket, gaia_files, dec_min, rc_progress, k, t, bands>>
    /\ BOthersUnchanged

(* lines 238-247: Table.read(gaia); an empty file raises IORegistryError and *)
(* the loop continues with the next file; otherwise the bands of the file.  *)
(* A file that is neither empty nor a table fails with another exception.   *)
Read239 ==
    /\ pcB = "read"
    /\ LET f == fits[gaia_files[k]]
       IN  IF f.kind = "empty"
           THEN k' = k + 1 /\ pcB' = "for" /\ t' = t /\ bands' = bands
           ELSE IF f.kind = "table" /\ f.rows # <<>>
           THEN k' = k /\ pcB' = "band" /\ t' = f.rows /\ bands' = BandsOf(f.rows)
           ELSE k' = k /\ pcB' = "raised" /\ t' = t /\ bands' = bands
    /\ UNCHANGED <<bucket, gaia_files, dec_min, rc_progress>> /\ BOthersUnchanged

(* lines 250-259: read the band file, append the rows of this band, rewrite; *)
(* Table.read(fn) of a band file that does not exist raises.                *)
Band250 ==
    /\ pcB = "band" /\ bands # <<>>
    /\ LET band == Head(bands)
       IN  IF band \in Bands /\ bucket[band].kind = "table"
           THEN /\ bucket' = [bucket EXCEPT
                                ![band] = TableFits(vstack(@.rows, t, band))]
                /\ bands' = Tail(bands) /\ pcB' = pcB
           ELSE /\ pcB' = "raised" /\ bucket' = bucket /\ bands' = bands
    /\ UNCHANGED <<gaia_files, dec_min, rc_progress, k, t>> /\ BOthersUnchanged

(* line 261: progress_bar.update(1), end of the iteration *)
Update261 ==
    /\ pcB = "band" /\ bands = <<>>
    /\ rc_progress' = rc_progress + 1
    /\ k' = k + 1
    /\ pcB' = "for"
    /\ UNCHANGED <<bucket, gaia_files, dec_min, t, bands>> /\ BOthersUnchanged

(* lines 264-268: each dec-band file is read, sorted by ra and rewritten.   *)
(* glob orders the files by name; they are visited here by band, which      *)
(* changes no file's result.                                                *)
Sort267 ==
    /\ pcB = "finalize"
    /\ \E s \in sort(bucket[dec_min].rows) :
          bucket' = [bucket EXCEPT ![dec_min] = TableFits(s)]
    /\ IF dec_min + BandWidth < BandHi
       THEN dec_min' = dec_min + BandWidth /\ pcB' = pcB
       ELSE dec_min' = dec_min /\ pcB' = "done"
    /\ UNCHANGED <<gaia_files, rc_progress, k, t, bands>> /\ BOthersUnchanged

recompile_edr3_catalog ==
    \/ Create221 \/ Glob230 \/ While235 \/ For237 \/ Read239 \/ Band250
    \/ Update261 \/ Sort267

RouteStopped == pcB \in {"done", "crashed", "raised", "capped"}

(* The process is terminated at any step: its locals are gone, the files     *)
(* stay as they are.                                                         *)
KillRoute ==
    /\ ~RouteStopped
    /\ pcB' = "crashed" /\ dec_min' = BandLo /\ gaia_files' = <<>>
    /\ rc_progress' = 0 /\ k' = 1 /\ t' = <<>> /\ bands' = <<>>
    /\ UNCHANGED bucket /\ BOthersUnchanged

(* The process is terminated inside a write of a dec-band file (lines 227,   *)
(* 259, 268): that file is left torn.  The model follows one torn band file  *)
(* at a time.                                                                *)
BeingWritten ==
    IF pcB = "band" THEN { b \in Bands : bands # <<>> /\ b = Head(bands) }
    ELSE IF pcB \in {"create", "finalize"} THEN { dec_min }
    ELSE {}

KillRouteTorn ==
    /\ \A c \in Bands : bucket[c].kind # "torn"
    /\ \E b \in BeingWritten : bucket' = [bucket EXCEPT ![b] = TornFits]
    /\ pcB' = "crashed" /\ dec_min' = BandLo /\ gaia_files' = <<>>
    /\ rc_progress' = 0 /\ k' = 1 /\ t' = <<>> /\ bands' = <<>>
    /\ BOthersUnchanged

(* recompile_edr3_catalog is invoked again in the same working directory. *)
RerunRoute ==
    /\ pcB \in {"done", "crashed", "raised"}
    /\ pcB' = "create" /\ dec_min' = BandLo /\ gaia_files' = <<>>
    /\ rc_progress' = 0 /\ k' = 1 /\ t' = <<>> /\ bands' = <<>>
    /\ UNCHANGED bucket /\ BOthersUnchanged

NextRoute == recompile_edr3_catalog \/ KillRoute \/ KillRouteTorn \/ RerunRoute

SpecRoute == InitRoute /\ [][NextRoute]_vars

(* An uninterrupted run: the interpreter keeps executing the program. *)
FairRoute ==
    InitRoute /\ [][recompile_edr3_catalog]_vars /\ WF_vars(recompile_edr3_catalog)

(***************************************************************************)
(*                              Properties                                 *)
(***************************************************************************)
Occ(s, r) == Cardinality({ j \in 1..Len(s) : s[j] = r })
Range(s) == { s[j] : j \in 1..Len(s) }

RECURSIVE OccInBuckets(_, _)
OccInBuckets(r, b) ==
    IF b >= BandHi THEN 0 ELSE Occ(bucket[b].rows, r) + OccInBuckets(r, b + BandWidth)

RECURSIVE OccInFiles(_, _)
OccInFiles(r, p) ==
    IF p > NumParts THEN 0 ELSE Occ(fits[p].rows, r) + OccInFiles(r, p + 1)

AllRows == UNION { Range(fits[p].rows) : p \in Parts }
             \cup UNION { Range(bucket[b].rows) : b \in Bands }

(* C1: after recompile_edr3_catalog completes, the rows of all bucket files, *)
(* taken together as a multiset, are exactly the rows of all loadable        *)
(* reduced partition files: none lost, none twice, none in two buckets.      *)
C1_BucketsPartitionRows ==
    pcB = "done" => \A r \in AllRows : OccInBuckets(r, BandLo) = OccInFiles(r, 1)

(* C2: under an uninterrupted run the routing loop terminates for every set  *)
(* of reduced files, placeholders included: progress_bar.n reaches           *)
(* len(gaia_files) and the Finalizer is reached.  (Runs the model cuts off   *)
(* in "capped", and runs that end in an exception, are not held against it.) *)
C2_RoutingTerminates ==
    <>(\/ pcB \in {"finalize", "done"} /\ rc_progress = Len(gaia_files)
       \/ pcB \in {"capped", "raised"})

(* The buckets that routing the loadable files alone produces: every bucket  *)
(* empty, then one pass of lines 237-261 over the tables.                    *)
RECURSIVE RouteBands(_, _, _)
RouteBands(bk, rows, bs) ==
    IF bs = <<>> THEN bk
    ELSE RouteBands([bk EXCEPT ![Head(bs)] = @ \o InBand(rows, Head(bs))],
                    rows, Tail(bs))

RECURSIVE RouteTables(_, _)
RouteTables(bk, p) ==
    IF p > NumParts THEN bk
    ELSE IF fits[p].kind = "table"
         THEN RouteTables(RouteBands(bk, fits[p].rows, BandsOf(fits[p].rows)), p + 1)
         ELSE RouteTables(bk, p + 1)

LoadableAlone == RouteTables([b \in Bands |-> <<>>], 1)

(* C10: a placeholder contributes no rows: the final contents of every       *)
(* bucket (as a multiset) are those of routing the loadable files alone.     *)
C10_PlaceholdersContributeNothing ==
    pcB = "done" =>
        \A b \in Bands : \A r \in AllRows :
            Occ(bucket[b].rows, r) = Occ(LoadableAlone[b], r)

(* C3: a local file lfn that exists holds a complete partition (BodyLen      *)
(* bytes, the declared length whenever one is declared), in every state,     *)
(* crashed ones included; and only os.rename (line 109) creates lfn.         *)
C3_CommitPoint ==
    /\ [](\A p \in Parts : raw[p].exists => Len(raw[p].bytes) = BodyLen)
    /\ [][\A p \in Parts :
            (~raw[p].exists /\ raw'[p].exists) =>
                (pcT = "rename" /\ p = i /\ file_size_bytes = BodyLen
                 /\ raw'[p] = tmp[p] /\ ~tmp'[p].exists)]_vars

(* a crash has left a partial staging file beside a committed partition *)
C3_Witness ==
    /\ pcR = "crashed"
    /\ \E p, q \in Parts :
          /\ raw[p].exists
          /\ ~raw[q].exists /\ tmp[q].exists
          /\ Len(tmp[q].bytes) > 0 /\ Len(tmp[q].bytes) < BodyLen

(* C4: with no declared length (file_size_bytes = 0) download_file streams   *)
(* the body and commits it: lfn exists when download_file returns.           *)
C4_UnknownLengthCommits ==
    (pcT = "returned" /\ file_size_bytes = 0) => raw[i].exists

(* C5: with a declared length L > 0, once a stream has failed download_file  *)
(* retries; it ends only by committing all L bytes to lfn (and otherwise     *)
(* keeps retrying).                                                          *)
C5_EndsOnlyCommitted ==
    (file_size_bytes > 0 /\ pcT \in {"returned", "raised"}) =>
        (raw[i].exists /\ Len(raw[i].bytes) = file_size_bytes)

(* C6: a connectivity error, wherever it occurs, is never raised to the      *)
(* caller of download_file.                                                  *)
C6_NeverRaised == pcT # "raised"

(* C7: when parse_edr3 reaches a partition whose reduced file exists, its    *)
(* next step changes no file, starts no download, reads and filters nothing  *)
(* and moves on to the next partition.                                       *)
C7_ExistingOutputSkipped ==
    [][(pcR = "isfile_fits" /\ fits[i].kind # "absent" /\ pcR' # "crashed") =>
          /\ fsvars' = fsvars
          /\ pcT' = "idle" /\ tvars' = tvars
          /\ data' = data
          /\ i' = i + 1 /\ pcR' = "for"]_vars

(* partition 1 was skipped by this run: with use_existing unset a run that   *)
(* had reduced it would have removed its raw file (line 179)                 *)
C7_Witness ==
    /\ pcR = "for" /\ i = 2 /\ ~use_existing
    /\ fits[1].kind = "table" /\ raw[1].exists

(* the acceptance predicate of the claim, on a row with its vmag *)
Accepted(r) == r.vmag <= 18000000 /\ r.dec > -40

(* C8: the rows written for a partition are exactly its raw rows with        *)
(* vmag <= 18.0 and dec > -40.0; applying the two cuts in either order gives *)
(* the same table; every row of every reduced table satisfies both.          *)
C8_FilterIsConjunction ==
    /\ pcR = "len" => data = SelectSeq(WithVmag(remote[i]), Accepted)
    /\ pcR = "remove" =>
          fits[i] = TableFits(Project(SelectSeq(WithVmag(remote[i]), Accepted)))
    /\ pcR = "cull_mag" => CullDec(CullMag(data)) = CullMag(CullDec(data))
    /\ \A p \in Parts : \A j \in 1..Len(fits[p].rows) : Accepted(fits[p].rows[j])

(* a partition with rows on both limits has been reduced and written *)
C8_Witness ==
    /\ pcR = "remove"
    /\ Len(remote[i]) = 5
    /\ fits[i].kind = "table" /\ Len(fits[i].rows) = 3
    /\ \E j \in 1..3 : fits[i].rows[j].vmag = 18000000

NoneAccepted(p) == SelectSeq(WithVmag(remote[p]), Accepted) = <<>>

(* C9: a partition reduced to zero rows gets an empty file under the reduced *)
(* name and loses its raw file; for a reduced partition the file is the      *)
(* empty placeholder iff no row was accepted; a later run skips the          *)
(* placeholder partition without touching any file or the network.          *)
C9_PlaceholderForEmptyPartition ==
    /\ [](\A p \in Parts :
            /\ outcome[p] = "zero" =>
                  (fits[p] = EmptyFits /\ ~raw[p].exists /\ NoneAccepted(p))
            /\ outcome[p] = "rows" =>
                  (fits[p].kind = "table" /\ ~NoneAccepted(p)))
    /\ [](pcR = "remove_empty" => fits[i] = EmptyFits)
    /\ [][(pcR = "isfile_fits" /\ outcome[i] = "zero" /\ pcR' # "crashed") =>
            (fsvars' = fsvars /\ tvars' = tvars /\ i' = i + 1 /\ pcR' = "for")]_vars

(* a later run reaches the partition whose placeholder an earlier run made *)
C9_Witness ==
    /\ pcR = "isfile_fits"
    /\ outcome[i] = "zero" /\ fits[i] = EmptyFits /\ ~raw[i].exists

(* C11: during routing and after finalization every row stored in the      *)
(* bucket [lo, lo+10) has lo <= dec < lo+10; a row on a band edge b is in    *)
(* bucket [b, b+10) only.                                                    *)
C11_RowsInTheirBand ==
    \A b \in Bands : \A j \in 1..Len(bucket[b].rows) :
        /\ b <= bucket[b].rows[j].dec
        /\ bucket[b].rows[j].dec < b + 10

(* rows on the edges 10 and 20 have been routed and finalized *)
C11_Witness ==
    /\ pcB = "done"
    /\ \E j \in 1..Len(bucket[10].rows) : bucket[10].rows[j].dec = 10
    /\ \E j \in 1..Len(bucket[20].rows) : bucket[20].rows[j].dec = 20

IsSortedByRa(s) == \A j \in 1..(Len(s) - 1) : s[j].ra <= s[j + 1].ra
IsPrefix(s, u) == Len(s) <= Len(u) /\ SubSeq(u, 1, Len(s)) = s

(* C12: after the Finalizer every bucket is in non-decreasing order of ra;   *)
(* before every reduced file has been routed a bucket is only emptied or     *)
(* appended to, never reordered.                                             *)
C12_SortedAfterAllRouted ==
    /\ [](pcB = "done" => \A b \in Bands : IsSortedByRa(bucket[b].rows))
    /\ [](pcB = "finalize" =>
            /\ rc_progress = Len(gaia_files)
            /\ \A p \in Parts : \A r \in Range(fits[p].rows) :
                  OccInBuckets(r, BandLo) >= 1)
    /\ [][pcB # "finalize" =>
            \A b \in Bands :
                \/ bucket'[b].rows = <<>>
                \/ IsPrefix(bucket[b].rows, bucket'[b].rows)]_vars

(* a bucket filled out of ra order by two files has been finalized *)
C12_Witness ==
    /\ pcB = "done"
    /\ Len(bucket[10].rows) >= 3
    /\ \E p \in Parts : fits[p].kind = "table" /\ ~IsSortedByRa(fits[p].rows)

(* The buckets recompile_edr3_catalog ends with when the reduced files are   *)
(* visited in the order `order` (a sequence of partitions): lines 235-261    *)
(* from empty buckets.                                                       *)
RECURSIVE VisitBands(_, _, _)
VisitBands(bk, rows, bs) ==
    IF bs = <<>> THEN bk
    ELSE VisitBands([bk EXCEPT ![Head(bs)] = vstack(@, rows, Head(bs))],
                    rows, Tail(bs))

RECURSIVE OnePass(_, _, _)
OnePass(bk, order, j) ==
    IF j > Len(order) THEN bk
    ELSE IF fits[order[j]].kind = "table"
         THEN OnePass(VisitBands(bk, fits[order[j]].rows, BandsOf(fits[order[j]].rows)),
                      order, j + 1)
         ELSE OnePass(bk, order, j + 1)

NumLoadable(order) == Cardinality({ j \in 1..Len(order) : fits[order[j]].kind = "table" })

RECURSIVE Passes(_, _, _)
Passes(bk, order, n) ==
    IF n = Len(order) \/ n >= MaxProgress \/ NumLoadable(order) = 0 THEN bk
    ELSE Passes(OnePass(bk, order, 1), order, n + NumLoadable(order))

RoutedInOrder(order) == Passes([b \in Bands |-> <<>>], order, 0)

Orderings ==
    LET S == Range(SortedGlob(1))
    IN  { o \in [1..Cardinality(S) -> S] : \A x, y \in 1..Cardinality(S) : o[x] = o[y] => x = y }

SameBags(bk) ==
    \A b \in Bands : \A r \in AllRows : Occ(bucket[b].rows, r) = Occ(bk[b], r)

(* C15: the final contents of every bucket, as a multiset, are the same for  *)
(* every order in which the reduced files are routed.                        *)
C15_OrderInsensitive ==
    pcB = "done" => \A o \in Orderings : SameBags(RoutedInOrder(o))

(* two loadable files have both put rows into bucket [10,20) *)
C15_Witness ==
    /\ pcB = "done"
    /\ Cardinality(Orderings) >= 2
    /\ \E x, y \in 1..Len(bucket[10].rows) :
          bucket[10].rows[x].name < 20 /\ bucket[10].rows[y].name > 20

(* C16: the Router only reads and rewrites band files that were created at   *)
(* the start of the run, so routing never fails on a missing band file.      *)
C16_OnlyPreCreatedBuckets ==
    /\ (pcB = "band" /\ bands # <<>>) =>
          (Head(bands) \in Bands /\ bucket[Head(bands)].kind = "table")
    /\ pcB # "raised"

(* C17: a run started after an interrupted one routes into empty buckets and *)
(* ends with the buckets of a single uninterrupted run over the same files.  *)
C17_RerunStartsClean ==
    /\ pcB \in {"glob", "while"} /\ rc_progress = 0 =>
          \A b \in Bands : bucket[b] = TableFits(<<>>)
    /\ pcB = "done" => SameBags(RoutedInOrder(SortedGlob(1)))

(* a re-run is re-creating the band files over the leftovers (rows and a     *)
(* torn file) of an interrupted run                                          *)
C17_Witness ==
    /\ pcB = "create" /\ dec_min > BandLo
    /\ \E b, c \in Bands :
          /\ b >= dec_min /\ c >= dec_min
          /\ bucket[b].kind = "torn" /\ bucket[c].rows # <<>>

(* C13 as stated: whatever the outcome of filtering, when parse_edr3 has     *)
(* finished with a partition its raw file is present iff use_existing.       *)
C13_RawKeptIffUseExisting ==
    [][(pcR \in {"remove", "remove_empty"} /\ pcR' = "for") =>
          (raw'[i].exists <=> use_existing)]_vars

(* C13, amended: for a partition with at least one accepted row the raw file *)
(* is present afterwards iff use_existing; for a partition with no accepted  *)
(* row the raw file is deleted whatever use_existing is.                     *)
C13_RawKeptIffUseExistingAndRows ==
    /\ [](pcR = "remove" => (data # <<>> /\ raw[i].exists))
    /\ [](pcR = "remove_empty" => (data = <<>> /\ raw[i].exists))
    /\ [][(pcR = "remove" /\ pcR' = "for") =>
            (raw'[i].exists <=> use_existing)]_vars
    /\ [][(pcR = "remove_empty" /\ pcR' = "for") => ~raw'[i].exists]_vars

(* with use_existing set, partition 1 kept its raw file (rows accepted) and  *)
(* partition 2 lost it (no row accepted)                                     *)
C13_Witness ==
    /\ pcR = "for" /\ i = 3 /\ use_existing
    /\ outcome[1] = "rows" /\ raw[1].exists
    /\ outcome[2] = "zero" /\ ~raw[2].exists

(* C14: at an unprocessed partition whose raw file exists, with use_existing *)
(* nothing is downloaded and the existing file is the one read; without it   *)
(* the file is removed and a raw file can only come back by the commit of a  *)
(* download made for this partition.                                         *)
C14_ExistingRawReusedOrReplaced ==
    /\ [](pcR = "isfile_lfn" => fits[i].kind = "absent")
    /\ [][(pcR = "isfile_lfn" /\ raw[i].exists /\ pcR' # "crashed") =>
            /\ pcR' = "while_dl" /\ tvars' = tvars
            /\ IF use_existing THEN fsvars' = fsvars ELSE ~raw'[i].exists]_vars
    /\ [][(pcR = "while_dl" /\ pcR' # "crashed") =>
            IF raw[i].exists
            THEN pcR' = "read" /\ fsvars' = fsvars /\ tvars' = tvars
            ELSE pcR' = "download" /\ pcT' = "get"]_vars
    /\ [][\A p \in Parts : (~raw[p].exists /\ raw'[p].exists) =>
            (p = i /\ pcR = "download" /\ pcT = "rename")]_vars
    /\ [][pcR' = "read" /\ pcR # "read" => pcR = "while_dl" /\ raw[i].exists]_vars

(* a run without use_existing stands before a raw file an earlier run left *)
C14_Witness ==
    pcR = "isfile_lfn" /\ raw[i].exists /\ ~use_existing

(* C18: when parse_edr3 has run to completion, however often it was          *)
(* terminated and re-invoked before, every partition's reduced file is the   *)
(* placeholder (no accepted row) or holds exactly the accepted rows.         *)
C18_ReducedFilesComplete ==
    (pcR = "done" /\ ~test_one) =>
        \A p \in Parts :
            \/ fits[p] = EmptyFits /\ NoneAccepted(p)
            \/ fits[p] = TableFits(Project(SelectSeq(WithVmag(remote[p]), Accepted)))

(* C19: while an attempt streams, the counter, the bytes the current         *)
(* response has delivered and the length of the staging file are equal and   *)
(* the staging file holds bytes of the current attempt only; a committed     *)
(* file holds the bytes of one attempt.                                      *)
C19_RetryStartsClean ==
    /\ pcT = "iter" =>
          /\ tmp[i].exists
          /\ progress = Len(tmp[i].bytes) /\ progress = sent
          /\ \A j \in 1..Len(tmp[i].bytes) : tmp[i].bytes[j] = attempt
    /\ \A p \in Parts : raw[p].exists =>
          \A x, y \in 1..Len(raw[p].bytes) : raw[p].bytes[x] = raw[p].bytes[y]

(* download_file returns having committed the bytes of a retry, after a      *)
(* first attempt that had written bytes                                      *)
C19_Witness ==
    /\ pcT = "returned" /\ raw[i].exists
    /\ Len(raw[i].bytes) > 0 /\ raw[i].bytes[1] = 0

(* C20: in an uninterrupted run without use_existing, begun with no raw      *)
(* files, at most one raw file (committed or .tmp) exists at any time and    *)
(* none when parse_edr3 returns.                                             *)
C20_AtMostOneRawFile ==
    /\ Cardinality({ p \in Parts : raw[p].exists })
         + Cardinality({ p \in Parts : tmp[p].exists }) <= 1
    /\ pcR = "done" => \A p \in Parts : ~raw[p].exists /\ ~tmp[p].exists

(* the run has returned after reducing every partition, one to a placeholder *)
C20_Witness ==
    /\ pcR = "done" /\ ~test_one
    /\ \A p \in Parts : outcome[p] # "none"
    /\ \E p \in Parts : outcome[p] = "zero"

====
